---- MODULE Spec2Model ----
(***************************************************************************)
(* Model of secure_chatbot.py: the interactive loop of main(), which sends *)
(* every non-empty line to the classification service                     *)
(* (scan_prompt_with_paloalto_api) and forwards it to the completion       *)
(* service only when the scan result says category "benign" and action    *)
(* "allow".                                                                *)
(*                                                                         *)
(* One action covers the code between two blocking points of the program: *)
(* program start to the first input() (Startup), input() to the           *)
(* requests.post of the scan (ReadInput), the arrival of the scan's HTTP   *)
(* result to the end of the iteration or to the completion call           *)
(* (ScanReturn), and the arrival of the completion's result to the end of *)
(* the iteration (CompletionReturn).                                       *)
(***************************************************************************)
EXTENDS Integers, Sequences, FiniteSets, TLC

VARIABLES
    pc,             \* where main() is: "start", "input", "scan_wait", "gen_wait",
                    \* "exited" (returned), "crashed" (left by an exception)
    config,         \* pan_api_key, pan_ai_profile_name, openai_api_key, openai_model
    openai_client,  \* "client", or None
    user_input,     \* the stripped line
    scan_result,    \* what the scan function returned
    category,       \* main's local
    action,         \* main's local
    http,           \* the outcome of the scan's HTTP exchange for this input
    completion,     \* the outcome of the completion call for this input
    posted,         \* requests posted to the classification service for this input
    generation,     \* requests sent to the completion service for this input
    findings,       \* threat lines printed for this input
    diag,           \* error line printed by the scan function for this input
    decision,       \* the verdict main printed for this input
    generatedText,  \* the AI response printed for this input
    errorKind,      \* the failure main printed for this input
    uncaught        \* the exception that ended the program

vars ==
    <<pc, config, openai_client, user_input, scan_result, category, action, http,
      completion, posted, generation, findings, diag, decision, generatedText,
      errorKind, uncaught>>

\* ------------------------------------------------------------------ bounds

\* Longest prompt_detected / response_detected object the service returns.
MaxMapLen == 1

\* ------------------------------------------------------------------ values

\* Python's None, where a string is expected.
None == "<None>"

\* A Python local that no statement has assigned yet.
Unbound == "<unbound>"

\* Text is a sequence of one-character strings.
Space == " "

RECURSIVE LStrip(_)
LStrip(s) == IF s # <<>> /\ Head(s) = Space THEN LStrip(Tail(s)) ELSE s

RECURSIVE RStrip(_)
RStrip(s) ==
    IF s # <<>> /\ s[Len(s)] = Space THEN RStrip(SubSeq(s, 1, Len(s) - 1)) ELSE s

\* str.strip()
Strip(s) == RStrip(LStrip(s))

LowerChar(c) ==
    CASE c = "E" -> "e"
      [] c = "X" -> "x"
      [] c = "I" -> "i"
      [] c = "T" -> "t"
      [] c = "H" -> "h"
      [] OTHER -> c

\* str.lower()
Lower(s) == [i \in 1..Len(s) |-> LowerChar(s[i])]

ExitCommand == <<"e", "x", "i", "t">>

\* The lines input() may return.
RawInputs ==
    { <<>>,
      <<" ">>,
      <<"e", "x", "i", "t">>,
      <<" ", "E", "x", "i", "T", " ">>,
      <<"h", "i">>,
      <<" ", "H", "i", " ">>,
      <<"p", "w", "n">> }

\* ------------------------------------------------------- the scan response

\* Keys of a detection object: one key of the display-name table, one key
\* the table does not hold.
ThreatKeys == {"injection", "custom_rule"}

\* The detection objects of at most MaxMapLen entries, as the ordered
\* key/value pairs of the parsed JSON object (a key occurs once).
DetectionMaps ==
    UNION { { m \in [1..n -> ThreatKeys \X BOOLEAN] :
                \A i, j \in 1..n : i # j => m[i][1] # m[j][1] } :
            n \in 0..MaxMapLen }

\* What the body may hold under "prompt_detected" / "response_detected": a
\* JSON object (kind "map", possibly empty), or a non-empty JSON array (kind
\* "list"), which is truthy and has no .items().
DetectionValues ==
    { [kind |-> "map", items |-> m] : m \in DetectionMaps }
        \cup { [kind |-> "list", items |-> <<>>] }

Absent == [kind |-> "absent", items |-> <<>>]

CategoryValues == {"benign", "malicious", "suspicious"}
ActionValues == {"allow", "block", "alert"}

Fields == {"category", "action", "prompt_detected", "response_detected"}

\* The JSON object with the given members; a member given as None / Absent
\* is left out of the object.
MakeBody(c, a, p, r) ==
    LET present == { k \in Fields :
                       \/ k = "category" /\ c # None
                       \/ k = "action" /\ a # None
                       \/ k = "prompt_detected" /\ p # Absent
                       \/ k = "response_detected" /\ r # Absent }
    IN  [ k \in present |->
            CASE k = "category" -> [kind |-> "str", str |-> c, det |-> Absent]
              [] k = "action" -> [kind |-> "str", str |-> a, det |-> Absent]
              [] k = "prompt_detected" -> [kind |-> "det", str |-> None, det |-> p]
              [] OTHER -> [kind |-> "det", str |-> None, det |-> r] ]

\* Every JSON object the service may answer with, the empty one included.
Bodies ==
    { MakeBody(c, a, p, r) :
        c \in CategoryValues \cup {None},
        a \in ActionValues \cup {None},
        p \in DetectionValues \cup {Absent},
        r \in DetectionValues \cup {Absent} }

EmptyBody == MakeBody(None, None, Absent, Absent)

\* What requests.post / raise_for_status / response.json() end in: an
\* exception, a JSON object, or JSON that is no object (array, string,
\* number, null).
RaisedByRequest ==
    {"HTTPError", "ConnectionError", "ConnectTimeout", "Timeout", "RequestException",
     "requests.JSONDecodeError", "json.JSONDecodeError"}

HttpPending == [kind |-> "pending", exc |-> None, body |-> EmptyBody]

HttpResults ==
    { [kind |-> "raise", exc |-> e, body |-> EmptyBody] : e \in RaisedByRequest }
        \cup { [kind |-> "dict", exc |-> None, body |-> b] : b \in Bodies }
        \cup { [kind |-> "nondict", exc |-> None, body |-> EmptyBody] }

\* ------------------------------------------------------------ dictionaries

\* The value returned by the scan function: None, or the parsed object.
NoneResult == [tag |-> "None", dict |-> EmptyBody]
DictResult(b) == [tag |-> "dict", dict |-> b]
UnassignedResult == [tag |-> "unassigned", dict |-> EmptyBody]

\* Variant of Get: a missing member leaves the local as it was (the value
\* of an earlier input).
GetOrStale(d, key) ==
    IF key \in DOMAIN d THEN d[key].str
    ELSE IF key = "category" THEN category ELSE action

\* dict.get(key): the member, or None.
Get(d, key) == IF key \in DOMAIN d THEN d[key].str ELSE None

\* dict.get(key, {}): the member, or an empty object.
GetDetected(d, key) ==
    IF key \in DOMAIN d THEN d[key].det ELSE [kind |-> "map", items |-> <<>>]

\* Python truth of a detection value: a non-empty object or array.
DetectedTruthy(v) == v.kind = "list" \/ (v.kind = "map" /\ v.items # <<>>)

\* Python truth of the scan's return value: neither None nor an empty dict.
Truthy(sr) == sr.tag = "dict" /\ DOMAIN sr.dict # {}

\* -------------------------------------------------- scan_prompt_with_paloalto_api

\* The request body posted to {base_url}/v1/scan/sync/request: the profile
\* and the whole prompt as the only content item.
Payload(prompt, profile) ==
    [ai_profile |-> [profile_name |-> profile], contents |-> <<[prompt |-> prompt]>>]

\* Variant of PostedRequests: the request is posted a second time.
PostedRequestsWithRetry(prompt, profile) ==
    <<Payload(prompt, profile), Payload(prompt, profile)>>

\* The requests the scan function posts for one prompt.
PostedRequests(prompt, profile) == <<Payload(prompt, profile)>>

\* The display names of the detection keys.
threat_categories ==
    << <<"prompt_injection", "Prompt Injection Attack">>,
       <<"injection", "Prompt Injection Attack">>,
       <<"jailbreak", "Jailbreak Attempt">>,
       <<"malicious_code", "Malicious Code Generation">>,
       <<"sensitive_data", "Sensitive Data Exposure">>,
       <<"toxicity", "Toxic Content">>,
       <<"bias", "Bias Detection">>,
       <<"harmful_content", "Harmful Content">>,
       <<"url_cats", "Malicious URL Detection">>,
       <<"malware", "Malware Detection">>,
       <<"db_security", "Database Security Threat">>,
       <<"dlp", "Data Loss Prevention">>,
       <<"pii", "Personal Identifiable Information">>,
       <<"financial_data", "Financial Data Exposure">>,
       <<"intellectual_property", "Intellectual Property Risk">>,
       <<"code_injection", "Code Injection">>,
       <<"resource_overload", "Resource Overload/DoS">>,
       <<"hallucination", "AI Hallucination">> >>

\* threat_categories.get(threat_type, threat_type.replace('_', ' ').title());
\* the humanized form of a key the table lacks is kept as a term over the key.
ThreatName(threat_type) ==
    IF \E i \in 1..Len(threat_categories) : threat_categories[i][1] = threat_type
    THEN LET i == CHOOSE i \in 1..Len(threat_categories) :
                      threat_categories[i][1] = threat_type
         IN  threat_categories[i][2]
    ELSE "title(" \o threat_type \o ")"

\* The threat lines printed for one detection object, in its iteration
\* order: one per key whose value is true.
RECURSIVE ThreatLines(_, _)
ThreatLines(items, origin) ==
    IF items = <<>> THEN <<>>
    ELSE LET rest == ThreatLines(Tail(items), origin)
         IN  IF Head(items)[2]
             THEN <<[origin |-> origin, key |-> Head(items)[1],
                     name |-> ThreatName(Head(items)[1])]>> \o rest
             ELSE rest

GeneralThreat == [origin |-> "General", key |-> "", name |-> "General Threat"]

\* Variant of NeedsGeneralThreat: printed for every malicious response.
NeedsGeneralThreatAlways(cat, threats_found) == cat = "malicious"

\* Whether the general-threat line is printed.
NeedsGeneralThreat(cat, threats_found) == cat = "malicious" /\ ~threats_found

\* The exception classes an except clause of the scan function catches: the
\* class it names and that class's subclasses (ConnectTimeout is both a
\* ConnectionError and a Timeout; requests' JSONDecodeError is both a
\* RequestException and a json.JSONDecodeError).
Catches(clause, exc) ==
    \/ clause = exc
    \/ clause = "RequestException" /\
         exc \in {"HTTPError", "ConnectionError", "ConnectTimeout", "Timeout",
                  "requests.JSONDecodeError"}
    \/ clause = "ConnectionError" /\ exc = "ConnectTimeout"
    \/ clause = "Timeout" /\ exc = "ConnectTimeout"
    \/ clause = "json.JSONDecodeError" /\ exc = "requests.JSONDecodeError"

\* Variant of ExceptClauses: the base class comes first.
ExceptClausesBaseFirst ==
    <<"RequestException", "HTTPError", "ConnectionError", "Timeout",
      "json.JSONDecodeError">>

\* The except clauses of the scan function, in their order.
ExceptClauses ==
    <<"HTTPError", "ConnectionError", "Timeout", "RequestException",
      "json.JSONDecodeError">>

\* The first except clause that catches exc, or None when it propagates.
CaughtBy(exc) ==
    IF \E i \in 1..Len(ExceptClauses) : Catches(ExceptClauses[i], exc)
    THEN ExceptClauses[CHOOSE i \in 1..Len(ExceptClauses) :
                          /\ Catches(ExceptClauses[i], exc)
                          /\ \A j \in 1..(i - 1) : ~Catches(ExceptClauses[j], exc)]
    ELSE None

\* The error line an except clause prints.
Diagnostic(clause) ==
    CASE clause = "HTTPError" -> "HTTP Error"
      [] clause = "ConnectionError" -> "Connection Error"
      [] clause = "Timeout" -> "Timeout Error"
      [] clause = "RequestException" -> "Request Error"
      [] clause = "json.JSONDecodeError" -> "JSON Decode Error"
      [] OTHER -> None

\* Variant of HandlerReturn: a timeout is answered with a benign result.
HandlerReturnFailOpen(clause) ==
    IF clause = "Timeout"
    THEN DictResult(MakeBody("benign", "allow", Absent, Absent))
    ELSE NoneResult

\* What an except clause returns.
HandlerReturn(clause) == NoneResult

\* The try block on a parsed JSON object: the threat lines printed and the
\* value returned, or the exception raised on the way.
TryBody(body) ==
    LET prompt_detected == GetDetected(body, "prompt_detected")
        response_detected == GetDetected(body, "response_detected")
        promptLines ==
            IF DetectedTruthy(prompt_detected)
            THEN ThreatLines(prompt_detected.items, "Prompt") ELSE <<>>
        responseLines ==
            IF DetectedTruthy(response_detected)
            THEN ThreatLines(response_detected.items, "Response") ELSE <<>>
        threats_found == promptLines \o responseLines # <<>>
        general ==
            IF NeedsGeneralThreat(Get(body, "category"), threats_found)
            THEN <<GeneralThreat>> ELSE <<>>
    IN  IF DetectedTruthy(prompt_detected) /\ prompt_detected.kind = "list"
        THEN [raised |-> "AttributeError", ret |-> UnassignedResult,
              findings |-> <<>>, diag |-> None]
        ELSE IF DetectedTruthy(response_detected) /\ response_detected.kind = "list"
        THEN [raised |-> "AttributeError", ret |-> UnassignedResult,
              findings |-> promptLines, diag |-> None]
        ELSE [raised |-> None, ret |-> DictResult(body),
              findings |-> promptLines \o responseLines \o general, diag |-> None]

\* The scan function on the outcome of its HTTP exchange: the value it
\* returns (ret), the threat lines and the error line it prints, and the
\* exception that leaves it (raised), if any.
ScanFunction(exchange) ==
    LET tried ==
            CASE exchange.kind = "raise" ->
                    [raised |-> exchange.exc, ret |-> UnassignedResult,
                     findings |-> <<>>, diag |-> None]
              [] exchange.kind = "nondict" ->
                    [raised |-> "AttributeError", ret |-> UnassignedResult,
                     findings |-> <<>>, diag |-> None]
              [] OTHER -> TryBody(exchange.body)
        clause == CaughtBy(tried.raised)
    IN  IF tried.raised = None THEN tried
        ELSE IF clause = None THEN tried
        ELSE [raised |-> None, ret |-> HandlerReturn(clause),
              findings |-> tried.findings, diag |-> Diagnostic(clause)]

\* ------------------------------------------------------------------- main

\* What os.getenv returns for a credential: unset, empty, or a value.
EnvValues == {None, "", "secret"}

\* What os.getenv("OPENAI_MODEL") returns: the variable is left unset.
EnvModels == {None}

\* os.getenv("OPENAI_MODEL", "gpt-4o")
GetenvModel(v) == IF v = None THEN "gpt-4o" ELSE v

\* Python truth of a string or None.
StrTruthy(v) == v # None /\ v # ""

NoConfig ==
    [pan_api_key |-> None, pan_ai_profile_name |-> None,
     openai_api_key |-> None, openai_model |-> None]

SystemPrompt == "You are a helpful, knowledgeable, and professional assistant."

\* The arguments of openai_client.chat.completions.create.
CompletionRequest(model, text) ==
    [model |-> model,
     messages |-> <<[role |-> "system", content |-> <<SystemPrompt>>],
                    [role |-> "user", content |-> text]>>,
     temperature |-> "0.7", max_tokens |-> 800, top_p |-> "0.95",
     frequency_penalty |-> 0, presence_penalty |-> 0, stop |-> None]

NoCompletion == [kind |-> "none", exc |-> None, choices |-> <<>>]

\* What the completion call ends in: a response with choices (possibly
\* none), or an exception.
CompletionResults ==
    { [kind |-> "ok", exc |-> None, choices |-> <<"reply">>],
      [kind |-> "ok", exc |-> None, choices |-> <<>>],
      [kind |-> "raise", exc |-> "APIError", choices |-> <<>>],
      [kind |-> "raise", exc |-> "APITimeoutError", choices |-> <<>>] }

\* The exception the try block of the AI phase ends in, or None:
\* the call's own, or IndexError from response.choices[0].
GenerationRaises(c) ==
    IF c.kind = "raise" THEN c.exc
    ELSE IF c.choices = <<>> THEN "IndexError"
    ELSE None

NoError == [kind |-> "none", inner |-> None]

\* What main reports when the scan returned nothing usable: the failure, and
\* the value it got from the scan function.
ScanFailedError(sr) == [kind |-> "ScanFailed", inner |-> sr.tag]

\* Variant of GenerationError: reported as a failed scan.
GenerationErrorAsScanFailure(exc) == [kind |-> "ScanFailed", inner |-> exc]

\* What main reports when the AI phase raised.
GenerationError(exc) == [kind |-> "GenerationFailed", inner |-> exc]

\* What main reports when the message passed but there is no client.
UnavailableError == [kind |-> "GenerationUnavailable", inner |-> None]

\* Variant of Decide: either approval is enough for Allow.
DecideEitherAllows(cat, act) ==
    IF cat = "malicious" \/ act = "block" THEN "Block"
    ELSE IF cat = "benign" \/ act = "allow" THEN "Allow"
    ELSE "Ambiguous"

\* Variant of Decide: Block needs both the category and the action.
DecideBothBlock(cat, act) ==
    IF cat = "malicious" /\ act = "block" THEN "Block"
    ELSE IF cat = "benign" /\ act = "allow" THEN "Allow"
    ELSE "Ambiguous"

\* The branch main takes on the extracted category and action.
Decide(cat, act) ==
    IF cat = "malicious" \/ act = "block" THEN "Block"
    ELSE IF cat = "benign" /\ act = "allow" THEN "Allow"
    ELSE "Ambiguous"

\* Whether the blocked-message banner raises: category.upper() and
\* action.upper() on None.
BannerRaises(cat, act) == cat = None \/ act = None

\* Variant of CallsCompletion: everything not blocked is forwarded.
CallsCompletionUnlessBlocked(dec, client) == dec # "Block" /\ client # None

\* Whether main calls the completion service.
CallsCompletion(dec, client) == dec = "Allow" /\ client # None

Init ==
    /\ pc = "start"
    /\ config = NoConfig
    /\ openai_client = None
    /\ user_input = <<>>
    /\ scan_result = UnassignedResult
    /\ category = Unbound
    /\ action = Unbound
    /\ http = HttpPending
    /\ completion = NoCompletion
    /\ posted = <<>>
    /\ generation = <<>>
    /\ findings = <<>>
    /\ diag = None
    /\ decision = "none"
    /\ generatedText = None
    /\ errorKind = NoError
    /\ uncaught = None

\* main() up to the chat loop: read the environment, return when a
\* credential is missing, build the client (or go on without one).
Startup ==
    /\ pc = "start"
    /\ \E key \in EnvValues, profile \in EnvValues, okey \in EnvValues,
          model \in EnvModels, client_ok \in BOOLEAN :
          /\ config' = [pan_api_key |-> key, pan_ai_profile_name |-> profile,
                        openai_api_key |-> okey, openai_model |-> GetenvModel(model)]
          /\ IF StrTruthy(key) /\ StrTruthy(profile) /\ StrTruthy(okey)
             THEN /\ pc' = "input"
                  /\ openai_client' = IF client_ok THEN "client" ELSE None
             ELSE /\ pc' = "exited"
                  /\ openai_client' = None
    /\ UNCHANGED <<user_input, scan_result, category, action, http, completion,
                   posted, generation, findings, diag, decision, generatedText,
                   errorKind, uncaught>>

\* One input(): 'exit' ends the session, an empty line is refused, any other
\* line goes to the scan function, which posts its request.  The console of
\* the previous input is over.
ReadInput(raw) ==
    /\ pc = "input"
    /\ user_input' = Strip(raw)
    /\ http' = HttpPending
    /\ completion' = NoCompletion
    /\ generation' = <<>>
    /\ findings' = <<>>
    /\ diag' = None
    /\ decision' = "none"
    /\ generatedText' = None
    /\ errorKind' = NoError
    /\ IF Lower(user_input') = ExitCommand
       THEN pc' = "exited" /\ posted' = <<>> /\ UNCHANGED scan_result
       ELSE IF user_input' = <<>>
       THEN pc' = "input" /\ posted' = <<>> /\ UNCHANGED scan_result
       ELSE /\ pc' = "scan_wait"
            /\ posted' = PostedRequests(user_input', config.pan_ai_profile_name)
            \* rebound when the call returns; not read before
            /\ scan_result' = UnassignedResult
    /\ UNCHANGED <<config, openai_client, category, action, uncaught>>

\* The scan's HTTP exchange ends: the rest of the scan function, then main's
\* decision, up to the end of the iteration or to the completion call.
ScanReturn(r) ==
    /\ pc = "scan_wait"
    /\ http' = r
    /\ LET s == ScanFunction(r)
           cat == Get(s.ret.dict, "category")
           act == Get(s.ret.dict, "action")
           dec == Decide(cat, act)
       IN  /\ findings' = s.findings
           /\ diag' = s.diag
           /\ IF s.raised # None
              THEN /\ pc' = "crashed"
                   /\ uncaught' = s.raised
                   /\ UNCHANGED <<scan_result, category, action, decision,
                                  errorKind, generation>>
              ELSE /\ scan_result' = s.ret
                   /\ IF ~Truthy(s.ret)
                      THEN /\ decision' = "ScanFailed"
                           /\ errorKind' = ScanFailedError(s.ret)
                           /\ pc' = "input"
                           /\ UNCHANGED <<category, action, generation, uncaught>>
                      ELSE /\ category' = cat
                           /\ action' = act
                           /\ decision' = dec
                           /\ IF dec = "Block" /\ BannerRaises(cat, act)
                              THEN /\ pc' = "crashed"
                                   /\ uncaught' = "AttributeError"
                                   /\ UNCHANGED <<errorKind, generation>>
                              ELSE IF CallsCompletion(dec, openai_client)
                              THEN /\ pc' = "gen_wait"
                                   /\ generation' =
                                        <<CompletionRequest(config.openai_model, user_input)>>
                                   /\ UNCHANGED <<errorKind, uncaught>>
                              ELSE /\ pc' = "input"
                                   /\ errorKind' =
                                        IF dec = "Allow" THEN UnavailableError ELSE NoError
                                   /\ UNCHANGED <<generation, uncaught>>
    /\ UNCHANGED <<config, openai_client, user_input, completion, posted,
                   generatedText>>

\* The completion call ends: print the reply, or the error.
CompletionReturn(c) ==
    /\ pc = "gen_wait"
    /\ completion' = c
    /\ IF GenerationRaises(c) = None
       THEN generatedText' = c.choices[1] /\ UNCHANGED errorKind
       ELSE errorKind' = GenerationError(GenerationRaises(c)) /\ UNCHANGED generatedText
    /\ pc' = "input"
    /\ UNCHANGED <<config, openai_client, user_input, scan_result, category, action,
                   http, posted, generation, findings, diag, decision, uncaught>>

Next ==
    \/ Startup
    \/ \E raw \in RawInputs : ReadInput(raw)
    \/ \E r \in HttpResults : ScanReturn(r)
    \/ \E c \in CompletionResults : CompletionReturn(c)

Spec == Init /\ [][Next]_vars

\* ----------------------------------------------------------------- claims

\* The member of the current scan response, read from the body itself.
ResponseField(key) == IF key \in DOMAIN http.body THEN http.body[key].str ELSE None

\* The detection pairs of the current scan response under key.
ResponseItems(key) ==
    IF key \in DOMAIN http.body /\ http.body[key].det.kind = "map"
    THEN http.body[key].det.items ELSE <<>>

\* The scan function handed the parsed response to main.
Delivered == http.kind = "dict" /\ scan_result = DictResult(http.body)

\* The scan of the current input failed: the exchange raised, or the body is
\* no JSON object.
ScanFailure == http.kind \in {"raise", "nondict"}

\* C1 (as stated): the completion service is not called when the decision is
\* Block or Ambiguous, and is called exactly once when the decision is Allow.
C1_AllowAlwaysGenerates ==
    /\ decision \in {"Block", "Ambiguous"} => Len(generation) = 0
    /\ decision = "Allow" => Len(generation) = 1

\* C1 (amended): the completion service is not called when the decision is
\* Block or Ambiguous; when the decision is Allow it is called exactly once
\* if the client was built at startup, and not at all (the outcome says
\* generation is unavailable) if it was not.
C1_GenerationOnlyOnAllow ==
    /\ decision \in {"Block", "Ambiguous"} => Len(generation) = 0
    /\ decision = "Allow" /\ openai_client # None => Len(generation) = 1
    /\ decision = "Allow" /\ openai_client = None =>
          /\ Len(generation) = 0
          /\ generatedText = None
          /\ errorKind = UnavailableError

C1_Witness ==
    /\ pc = "input"
    /\ decision = "Allow"
    /\ openai_client # None
    /\ Len(generation) = 1
    /\ completion.kind = "ok"

\* C2: after a scan failure of any kind the outcome has no generated text,
\* its decision is not Allow, and no completion request was sent.
C2_FailClosed ==
    ScanFailure =>
        /\ decision # "Allow"
        /\ generatedText = None
        /\ generation = <<>>
        /\ pc # "gen_wait"

C2_Witness ==
    /\ pc = "input"
    /\ http.kind = "raise"
    /\ http.exc = "Timeout"
    /\ decision = "ScanFailed"
    /\ Len(posted) = 1

\* C3: the decision is Allow exactly when the response's category is
\* "benign" and its action is "allow"; a missing or other value never
\* gives Allow.
C3_AllowIff ==
    /\ decision = "Allow" =>
          /\ Delivered
          /\ ResponseField("category") = "benign"
          /\ ResponseField("action") = "allow"
    /\ Delivered /\ ResponseField("category") = "benign"
          /\ ResponseField("action") = "allow" => decision = "Allow"

C3_Witness ==
    /\ Delivered
    /\ decision = "Allow"
    /\ ResponseField("category") = "benign"
    /\ ResponseField("action") = "allow"

\* C4: a response with category "malicious" is decided Block whatever its
\* action, and a response with action "block" is decided Block whatever its
\* category; such a response is never allowed through.
C4_BlockPrecedence ==
    Delivered /\ (ResponseField("category") = "malicious"
                    \/ ResponseField("action") = "block") =>
        /\ decision = "Block"
        /\ generation = <<>>

C4_Witness ==
    /\ Delivered
    /\ decision = "Block"
    /\ ResponseField("category") = "benign"
    /\ ResponseField("action") = "block"
    /\ pc = "input"

\* C5: processing an input never ends in an uncaught exception.
C5_NeverRaises == pc # "crashed" /\ uncaught = None

\* C6: when the decision is Allow and the completion call fails, the
\* decision stays Allow, there is no generated text, and the error is a
\* generation failure.
C6_GenerationFailureKeepsAllow ==
    completion # NoCompletion /\ GenerationRaises(completion) # None =>
        /\ decision = "Allow"
        /\ generatedText = None
        /\ errorKind.kind = "GenerationFailed"
        /\ errorKind.inner = GenerationRaises(completion)

C6_Witness ==
    /\ pc = "input"
    /\ completion.kind = "raise"
    /\ decision = "Allow"
    /\ errorKind.kind = "GenerationFailed"

\* C7: a non-empty input gets exactly one classification request, carrying
\* the whole input, and at most one completion request, sent only after the
\* classification answered; nothing is sent again after a failure.
C7_OneScanAtMostOneGeneration ==
    /\ Len(posted) <= 1
    /\ Len(generation) <= 1
    /\ (pc \in {"scan_wait", "gen_wait"} \/ http.kind # "pending") =>
          /\ user_input # <<>>
          /\ Len(posted) = 1
          /\ posted[1].contents = <<[prompt |-> user_input]>>
    /\ generation # <<>> => http.kind = "dict" /\ pc # "scan_wait"
    /\ completion # NoCompletion => Len(generation) = 1 /\ pc # "gen_wait"
    /\ ScanFailure => pc \in {"input", "crashed", "exited"}

C7_Witness ==
    /\ pc = "input"
    /\ Len(posted) = 1
    /\ Len(generation) = 1
    /\ completion.kind = "raise"

\* C8 (as stated): the outcome of a failed scan carries the failure's cause,
\* so a timeout gives ScanFailed(Timeout).
C8_CauseSurfaced ==
    pc = "input" /\ http.kind = "raise" =>
        errorKind = [kind |-> "ScanFailed", inner |-> http.exc]

\* C8 (amended): every failure cause reaches the caller of the scan as the
\* same value, None, and the outcome is ScanFailed without a cause; the cause
\* shows only in the error line the scan function prints, which is that of
\* the first except clause catching the exception.
C8_CauseOnlyPrinted ==
    http.kind = "raise" =>
        /\ scan_result = NoneResult
        /\ errorKind = [kind |-> "ScanFailed", inner |-> "None"]
        /\ diag = "HTTP Error" <=> http.exc = "HTTPError"
        /\ diag = "Connection Error" <=> http.exc \in {"ConnectionError", "ConnectTimeout"}
        /\ diag = "Timeout Error" <=> http.exc = "Timeout"
        /\ diag = "Request Error" <=>
              http.exc \in {"RequestException", "requests.JSONDecodeError"}
        /\ diag = "JSON Decode Error" <=> http.exc = "json.JSONDecodeError"

C8_Witness ==
    /\ pc = "input"
    /\ http.kind = "raise"
    /\ http.exc = "Timeout"
    /\ diag = "Timeout Error"
    /\ errorKind.kind = "ScanFailed"

\* Whether some key of the current response's detection objects is true.
AnyDetected ==
    \/ \E i \in 1..Len(ResponseItems("prompt_detected")) :
          ResponseItems("prompt_detected")[i][2]
    \/ \E i \in 1..Len(ResponseItems("response_detected")) :
          ResponseItems("response_detected")[i][2]

GeneralCount == Cardinality({i \in 1..Len(findings) : findings[i].origin = "General"})

\* C9: for a response with category "malicious" the threat lines are not
\* empty; the general-threat line is printed once when no detection key is
\* true, and only for a malicious response without detections.
C9_MaliciousHasFindings ==
    Delivered =>
        /\ ResponseField("category") = "malicious" => findings # <<>>
        /\ GeneralCount =
              IF ResponseField("category") = "malicious" /\ ~AnyDetected THEN 1 ELSE 0
        /\ ~AnyDetected /\ ResponseField("category") = "malicious" =>
              findings = <<GeneralThreat>>

C9_Witness ==
    /\ Delivered
    /\ ResponseField("category") = "malicious"
    /\ ResponseField("action") = "allow"
    /\ ~AnyDetected
    /\ findings = <<GeneralThreat>>

\* The verdict for a scan exchange, as a function of that exchange alone.
VerdictOf(h) ==
    LET field(k) == IF k \in DOMAIN h.body THEN h.body[k].str ELSE None
        isList(k) == k \in DOMAIN h.body /\ h.body[k].det.kind = "list"
    IN  CASE h.kind = "raise" -> "ScanFailed"
          [] h.kind \in {"pending", "nondict"} -> "none"
          [] isList("prompt_detected") \/ isList("response_detected") -> "none"
          [] DOMAIN h.body = {} -> "ScanFailed"
          [] field("category") = "malicious" \/ field("action") = "block" -> "Block"
          [] field("category") = "benign" /\ field("action") = "allow" -> "Allow"
          [] OTHER -> "Ambiguous"

\* C10: the outcome of an input is a function of its own text, scan exchange
\* and completion result and of the startup configuration, whatever main's
\* locals hold from earlier inputs.
C10_Stateless ==
    pc # "start" =>
        /\ decision = VerdictOf(http)
        /\ posted =
              IF pc \in {"scan_wait", "gen_wait"} \/ http.kind # "pending"
              THEN <<Payload(user_input, config.pan_ai_profile_name)>> ELSE <<>>
        /\ generation =
              IF VerdictOf(http) = "Allow" /\ openai_client # None
              THEN <<CompletionRequest(config.openai_model, user_input)>> ELSE <<>>
        /\ generatedText =
              IF completion.kind = "ok" /\ completion.choices # <<>>
              THEN completion.choices[1] ELSE None

\* The locals of an allowed input are still set while a later input's scan
\* has failed.
C10_Witness ==
    /\ pc = "input"
    /\ category = "benign"
    /\ action = "allow"
    /\ http.kind = "raise"
    /\ decision = "ScanFailed"
    /\ generation = <<>>

====
